---- MODULE Spec2Model ----
(***************************************************************************)
(* Model of src/main.py: MCPClient (connect_to_server, process_query,      *)
(* chat_loop, cleanup) and main.                                           *)
(*                                                                         *)
(* The program's collaborators are outside the file and are modelled as    *)
(* its environment: the MCP session (ClientSession over stdio_client), the *)
(* chat-completion API (self.client.chat.completions.create) and the user  *)
(* typing at input().  Every call the program makes to one of them is a    *)
(* step whose result is drawn from the set of results the call can have    *)
(* (a value, or an exception).  An awaited session request is two steps:   *)
(* the program issues it, and the environment completes it.                *)
(***************************************************************************)
EXTENDS Integers, Sequences, FiniteSets, TLC

\* ------------------------------------------------------------------ bounds
MaxQueries == 2      \* queries typed into the chat loop in one run
MaxCalls == 2        \* tool-invocation requests carried by one model reply
MaxBlocks == 2       \* content blocks in one tool result
MaxCleanups == 2     \* calls of cleanup on one client

\* ------------------------------------------------------------- value sets
None == "None"

\* What input() can return (line 151).
RawLines == {" hello ", "what tables exist?", "quit", " QUIT "}

\* str.strip (line 151) on these lines.
Strip(s) ==
    CASE s = " hello " -> "hello"
      [] s = " QUIT " -> "QUIT"
      [] OTHER -> s

\* str.lower (line 153) on these lines and their stripped forms.
Lower(s) ==
    CASE s = "QUIT" -> "quit"
      [] s = " QUIT " -> " quit "
      [] OTHER -> s

\* Line 153: the test that ends the loop, on the stripped line.
IsQuit(query_) == Lower(query_) = "quit"

ToolNames == {"list_tables", "run_query"}
Texts == {"orders", "users"}
ReplyTexts == {"hi there", None}

\* tool_call.function.arguments is a JSON document in a string.
ArgStrings == {"{}", "{\"db\":\"shop\"}", "{\"db\":"}

\* json.loads (line 121): the parsed dictionary, as a set of <<key, value>>
\* pairs, or a JSONDecodeError for a document that is cut short.
json_loads(s) ==
    CASE s = "{}" -> [ok |-> TRUE, value |-> {}]
      [] s = "{\"db\":\"shop\"}" -> [ok |-> TRUE, value |-> {<<"db", "shop">>}]
      [] OTHER -> [ok |-> FALSE, value |-> {}]

\* One tool-invocation request of a model reply: id and function{name, arguments}.
CallId(i) == IF i = 1 THEN "call_1" ELSE IF i = 2 THEN "call_2" ELSE "call_3"

FirstCalls == [id : {CallId(1)}, name : ToolNames, arguments : ArgStrings]
LaterCalls(i) == [id : {CallId(i)}, name : ToolNames, arguments : {"{}"}]

RECURSIVE CallSeqs(_)
CallSeqs(n) ==
    IF n = 0 THEN {<<>>}
    ELSE IF n = 1 THEN {<<c>> : c \in FirstCalls}
    ELSE {Append(s, c) : s \in CallSeqs(n - 1), c \in LaterCalls(n)}

ToolCallSeqs == UNION {CallSeqs(n) : n \in 0..MaxCalls}

\* response.choices[0] as the program reads it (lines 116-119, 140, 142):
\* finish_reason, message.content and message.tool_calls.  The API sets
\* finish_reason to "tool_calls" exactly when the message carries requests.
ModelReplies ==
    {[finish_reason |-> IF Len(tc) > 0 THEN "tool_calls" ELSE "stop",
      content |-> c, tool_calls |-> tc] : c \in ReplyTexts, tc \in ToolCallSeqs}

RECURSIVE BlockSeqs(_)
BlockSeqs(n) ==
    IF n = 0 THEN {<<>>}
    ELSE {Append(s, t) : s \in BlockSeqs(n - 1), t \in Texts}

\* CallToolResult as the program reads it (line 131): the text of each content
\* block; isError is the flag the remote side sets on a failed tool.
ToolResults ==
    [content : UNION {BlockSeqs(n) : n \in 0..MaxBlocks}, isError : BOOLEAN]

\* ------------------------------------------------------------- the state
VARIABLES
    mpc,          \* main's position
    exit_stack,   \* self.exit_stack: the contexts entered, oldest first
    acquired,     \* log: every context entered, in order
    released,     \* log: every context exited, in order
    startLog,     \* log: the startup steps that succeeded, in order
    pending,      \* the exception in flight in main (None if none)
    mainResult,   \* what main's caller gets: None while running, "ok", or an exception
    sessionState, \* the MCP session: Unconnected, Ready or Closed
    closedSeen,   \* a session request of a query has failed with SessionClosedError
    nQueries,     \* queries read so far
    qpc,          \* chat_loop / process_query position
    messages,     \* process_query's local history
    trace,        \* log of the current query: the collaborator calls, in order
    calls,        \* log of the current query: the call_tool requests issued
    results,      \* log of the current query: the payloads call_tool returned
    replies,      \* log of the current query: the replies of the model calls
    sent,         \* log of the current query: the history given to each model call
    outcome,      \* how the last process_query ended
    line,         \* what the last input() returned
    query,        \* chat_loop's local query: that line, stripped
    printed,      \* what chat_loop printed last: None, "answer" or "error"
    cleanups      \* log: one record per call of cleanup

vars == <<mpc, exit_stack, acquired, released, startLog, pending, mainResult,
          sessionState, closedSeen, nQueries, qpc, messages, trace, calls,
          results, replies, sent, outcome, line, query, printed, cleanups>>

loopVars == <<line, query, printed>>

mainVars == <<mpc, exit_stack, acquired, released, startLog, pending, mainResult>>
queryVars == <<nQueries, qpc, messages, trace, calls, results, replies, sent, outcome>>

NoOutcome == [kind |-> "none", value |-> None]

Init ==
    /\ mpc = "new"
    /\ exit_stack = <<>>
    /\ acquired = <<>>
    /\ released = <<>>
    /\ startLog = <<>>
    /\ pending = None
    /\ mainResult = None
    /\ sessionState = "Unconnected"
    /\ closedSeen = FALSE
    /\ nQueries = 0
    /\ qpc = "idle"
    /\ messages = <<>>
    /\ trace = <<>>
    /\ calls = <<>>
    /\ results = <<>>
    /\ replies = <<>>
    /\ sent = <<>>
    /\ outcome = NoOutcome
    /\ line = None
    /\ query = None
    /\ printed = None
    /\ cleanups = <<>>


\* ------------------------------------------------- main and startup steps
\* A raise inside main's try block (lines 168-170): the exception is in
\* flight and control goes to the finally clause.
Abort(e) ==
    /\ pending' = e
    /\ mpc' = "cleanup"

\* Mutant of StepFailed: connect_to_server reports the error and returns,
\* so main goes on to chat_loop.
StepFailedSwallowed(e) ==
    /\ mpc' = "loop"
    /\ UNCHANGED pending

\* A step of connect_to_server that succeeds goes on to the next line; one
\* that raises leaves connect_to_server (nothing in it catches), so main
\* skips chat_loop.
StepDone(next) ==
    /\ mpc' = next
    /\ UNCHANGED pending

StepFailed(e) == Abort(e)

\* Line 167, before the try block: MCPClient() reads the configuration and
\* the API key; a raise here leaves main with nothing acquired.
Construct ==
    /\ mpc = "new"
    /\ \/ /\ mpc' = "config"
          /\ UNCHANGED mainResult
       \/ /\ mpc' = "done"
          /\ mainResult' = "ValueError"
    /\ UNCHANGED <<exit_stack, acquired, released, startLog, pending,
                   sessionState, closedSeen, queryVars>>
    /\ UNCHANGED <<loopVars, cleanups>>

\* Line 62: get_server_name_and_config.
GetConfig ==
    /\ mpc = "config"
    /\ \/ StepDone("spawn")
       \/ StepFailed("ValueError")
    /\ UNCHANGED <<exit_stack, acquired, released, startLog, mainResult,
                   sessionState, closedSeen, queryVars>>
    /\ UNCHANGED <<loopVars, cleanups>>

\* Line 79: enter stdio_client on the exit stack (spawns the child process).
StartTransport ==
    /\ mpc = "spawn"
    /\ \/ /\ exit_stack' = Append(exit_stack, "transport")
          /\ acquired' = Append(acquired, "transport")
          /\ startLog' = Append(startLog, "transport")
          /\ StepDone("session")
       \/ /\ StepFailed("LaunchError")
          /\ UNCHANGED <<exit_stack, acquired, startLog>>
    /\ UNCHANGED <<released, mainResult, sessionState, closedSeen, queryVars>>
    /\ UNCHANGED <<loopVars, cleanups>>

\* Line 81: enter ClientSession on the exit stack.
EnterSession ==
    /\ mpc = "session"
    /\ exit_stack' = Append(exit_stack, "session")
    /\ acquired' = Append(acquired, "session")
    /\ startLog' = Append(startLog, "session")
    /\ StepDone("initialize")
    /\ UNCHANGED <<released, mainResult, sessionState, closedSeen, queryVars>>
    /\ UNCHANGED <<loopVars, cleanups>>

\* Line 83: the handshake.
Initialize ==
    /\ mpc = "initialize"
    /\ \/ /\ sessionState' = "Ready"
          /\ startLog' = Append(startLog, "initialize")
          /\ StepDone("list_tools")
       \/ /\ sessionState' = "Closed"
          /\ UNCHANGED startLog
          /\ StepFailed("HandshakeError")
    /\ UNCHANGED <<exit_stack, acquired, released, mainResult, closedSeen,
                   queryVars>>
    /\ UNCHANGED <<loopVars, cleanups>>

\* Lines 86-88: the catalog fetch of connect_to_server; then main enters
\* chat_loop (line 170), which waits at input().
StartupListTools ==
    /\ mpc = "list_tools"
    /\ \/ /\ sessionState = "Ready"
          /\ startLog' = Append(startLog, "list_tools")
          /\ StepDone("loop")
          /\ qpc' = "input"
       \/ /\ UNCHANGED <<startLog, qpc>>
          /\ StepFailed(IF sessionState = "Closed" THEN "SessionClosedError"
                        ELSE "ProtocolError")
    /\ UNCHANGED <<exit_stack, acquired, released, mainResult, sessionState,
                   closedSeen, nQueries, messages, trace, calls, results,
                   replies, sent, outcome>>
    /\ UNCHANGED <<loopVars, cleanups>>

\* chat_loop is left (or was never entered): process_query's locals, and
\* the logs kept of them, are gone.
LoopLeft ==
    /\ qpc' = "idle"
    /\ messages' = <<>>
    /\ trace' = <<>>
    /\ calls' = <<>>
    /\ results' = <<>>
    /\ replies' = <<>>
    /\ sent' = <<>>
    /\ outcome' = NoOutcome

\* KeyboardInterrupt / CancelledError: not an Exception, so chat_loop's
\* handler (line 159) does not catch it; inside the try block of main it
\* unwinds to the finally clause.
Interrupt ==
    /\ mpc \in {"config", "spawn", "session", "initialize", "list_tools", "loop"}
    /\ Abort("KeyboardInterrupt")
    /\ LoopLeft
    /\ UNCHANGED <<exit_stack, acquired, released, startLog, mainResult,
                   sessionState, closedSeen, nQueries>>
    /\ UNCHANGED <<loopVars, cleanups>>

\* The child process exits or the transport fails: the session is Closed.
SessionDrop ==
    /\ sessionState = "Ready"
    /\ mpc \in {"list_tools", "loop"}
    /\ sessionState' = "Closed"
    /\ UNCHANGED <<mainVars, closedSeen, queryVars>>
    /\ UNCHANGED <<loopVars, cleanups>>

RECURSIVE Reverse(_)
Reverse(s) == IF s = <<>> THEN <<>> ELSE Append(Reverse(Tail(s)), Head(s))

\* Mutant of ReleaseOrder: the contexts are exited in the order entered.
ReleaseOrderFifo(stack) == stack

\* AsyncExitStack.aclose (line 164): every context on the stack is exited,
\* last entered first, and the stack is left empty.
ReleaseOrder(stack) == Reverse(stack)

\* main's finally clause (lines 171-172): an exception raised by cleanup
\* replaces the one in flight; otherwise the one in flight, if any, goes on.
MainOutcome(primary, teardown) ==
    IF teardown # None THEN teardown
    ELSE IF primary # None THEN primary
    ELSE "ok"

\* What exiting the contexts can raise: nothing when there is none to exit.
TeardownErrors(stack) ==
    IF stack = <<>> THEN {None} ELSE {None, "TeardownError"}

\* Mutant of StackAfterClose: the contexts stay registered after the call.
StackKept(stack) == stack

\* AsyncExitStack.aclose (line 164) pops every context it exits.
StackAfterClose(stack) == <<>>

\* The child process has exited (the session dropped after its handshake).
ChildGone == sessionState = "Closed" /\ "initialize" \in {startLog[i] : i \in 1..Len(startLog)}

\* cleanup (lines 162-164): exit_stack.aclose(), raising te or nothing.
aclose(te) ==
    /\ released' = released \o ReleaseOrder(exit_stack)
    /\ exit_stack' = StackAfterClose(exit_stack)
    /\ sessionState' = IF sessionState = "Unconnected" THEN "Unconnected" ELSE "Closed"
    /\ cleanups' = Append(cleanups, [exited |-> Len(exit_stack), raised |-> te,
                                     childGone |-> ChildGone])

\* Lines 162-164 and 171-172: cleanup, then main ends.  Exiting a context
\* may raise; aclose still exits the remaining ones and then re-raises.
Cleanup ==
    /\ mpc = "cleanup"
    /\ \E te \in TeardownErrors(exit_stack) :
          /\ aclose(te)
          /\ mainResult' = MainOutcome(pending, te)
    /\ mpc' = "done"
    /\ UNCHANGED <<acquired, startLog, pending, closedSeen, queryVars, loopVars>>

\* client.cleanup() called once more on a client main has cleaned up
\* (lines 162-164; main itself calls it once).
CleanupAgain ==
    /\ mpc = "done"
    /\ Len(cleanups) >= 1
    /\ Len(cleanups) < MaxCleanups
    /\ \E te \in TeardownErrors(exit_stack) : aclose(te)
    /\ UNCHANGED <<mpc, acquired, startLog, pending, mainResult, closedSeen,
                   queryVars, loopVars>>


\* ------------------------------------------- chat_loop and process_query
UserTurn(q) ==
    [role |-> "user", content |-> q, tool_calls |-> <<>>, tool_call_id |-> None]

\* content.message.model_dump() (line 128): the model's turn as it came.
AssistantTurn(r) ==
    [role |-> "assistant", content |-> r.content, tool_calls |-> r.tool_calls,
     tool_call_id |-> None]

\* Mutant of PickCall: the last request of the reply is taken.
PickLastCall(r) == r.tool_calls[Len(r.tool_calls)]

\* Line 119: the request the program executes.
PickCall(r) == r.tool_calls[1]

\* Lines 129-133: the tool-result turn.
ToolTurn(res, tc) ==
    [role |-> "tool", content |-> res.content[1], tool_calls |-> <<>>,
     tool_call_id |-> tc.id]

\* Line 117: the program's test for a tool-invocation request.
WantsTool(r) == r.finish_reason = "tool_calls"

\* Mutant of Return: "return content or ''", a missing text becomes empty.
ReturnOrEmpty(v) ==
    /\ outcome' = [kind |-> "returned", value |-> IF v = None THEN "" ELSE v]
    /\ printed' = "answer"
    /\ qpc' = "input"

\* process_query returns v to chat_loop (lines 140, 142), which prints it
\* (line 157: "\n" + None raises TypeError, reported by the handler of
\* line 159) and goes back to input().
Return(v) ==
    /\ outcome' = [kind |-> "returned", value |-> v]
    /\ printed' = IF v = None THEN "error" ELSE "answer"
    /\ qpc' = "input"

\* process_query raises e; chat_loop's handler (lines 159-160) reports it
\* and goes back to input().
Raise(e) ==
    /\ outcome' = [kind |-> "raised", value |-> e]
    /\ printed' = "error"
    /\ qpc' = "input"

\* Mutant of FreshHistory: the history is kept on the client and each
\* query is appended to it.
KeptHistory(q) == Append(messages, UserTurn(q))

\* Line 95: process_query's history at its start.
FreshHistory(q) == <<UserTurn(q)>>

\* Lines 151-156 and 95-98: input() returns a line that is not 'quit';
\* process_query starts a fresh history and issues list_tools.
ReadQuery(raw) ==
    /\ mpc = "loop"
    /\ qpc = "input"
    /\ nQueries < MaxQueries
    /\ ~IsQuit(Strip(raw))
    /\ line' = raw
    /\ query' = Strip(raw)
    /\ UNCHANGED <<printed, cleanups>>
    /\ nQueries' = nQueries + 1
    /\ messages' = FreshHistory(Strip(raw))
    /\ trace' = <<"list_tools">>
    /\ calls' = <<>>
    /\ results' = <<>>
    /\ replies' = <<>>
    /\ sent' = <<>>
    /\ outcome' = NoOutcome
    /\ qpc' = "list_wait"
    /\ UNCHANGED <<mainVars, sessionState, closedSeen>>

\* Lines 153-154 and 170-171: 'quit' leaves the loop; main goes to finally.
ReadQuit ==
    /\ mpc = "loop"
    /\ qpc = "input"
    /\ \E raw \in RawLines :
          /\ IsQuit(Strip(raw))
          /\ line' = raw
          /\ query' = Strip(raw)
    /\ UNCHANGED <<printed, cleanups>>
    /\ mpc' = "cleanup"
    /\ LoopLeft
    /\ UNCHANGED <<exit_stack, acquired, released, startLog, pending,
                   mainResult, sessionState, closedSeen, nQueries>>

\* Mutant of ReadFails: input() stands outside the try block, its exception
\* leaves chat_loop.
ReadFailsLeaves ==
    /\ mpc = "loop"
    /\ qpc = "input"
    /\ Abort("EOFError")
    /\ LoopLeft
    /\ UNCHANGED <<exit_stack, acquired, released, startLog, mainResult,
                   sessionState, closedSeen, nQueries, loopVars, cleanups>>

\* input() raises an Exception (EOFError at end of input, line 151): the
\* handler of line 159 reports it and the loop goes on.
ReadFails ==
    /\ mpc = "loop"
    /\ qpc = "input"
    /\ printed' = "error"
    /\ UNCHANGED <<mainVars, sessionState, closedSeen, queryVars, line, query,
                   cleanups>>

\* The session answers list_tools (line 98); lines 99-106 build the catalog.
ListToolsReturn ==
    /\ mpc = "loop"
    /\ qpc = "list_wait"
    /\ sessionState = "Ready"
    /\ qpc' = "model1"
    /\ UNCHANGED <<mainVars, sessionState, closedSeen, nQueries, messages,
                   trace, calls, results, replies, sent, outcome>>
    /\ UNCHANGED <<loopVars, cleanups>>

\* The exceptions an awaited session request can end with.
SessionErrors(st, remote) ==
    IF st = "Closed" THEN {"SessionClosedError"} ELSE {remote}

\* list_tools raises (line 98): nothing in process_query catches it.
ListToolsRaise ==
    /\ mpc = "loop"
    /\ qpc = "list_wait"
    /\ \E e \in SessionErrors(sessionState, "ProtocolError") :
          /\ Raise(e)
          /\ closedSeen' = (closedSeen \/ e = "SessionClosedError")
    /\ UNCHANGED <<mainVars, sessionState, nQueries, messages, trace, calls,
                   results, replies, sent>>
    /\ UNCHANGED <<line, query, cleanups>>

\* Lines 109-113 and 116-117, 142: the first model call; a reply that asks
\* for no tool is returned.
ModelAnswers ==
    /\ mpc = "loop"
    /\ qpc = "model1"
    /\ \E r \in ModelReplies :
          /\ ~WantsTool(r)
          /\ replies' = Append(replies, r)
          /\ Return(r.content)
    /\ sent' = Append(sent, messages)
    /\ trace' = Append(trace, "model")
    /\ UNCHANGED <<mainVars, sessionState, closedSeen, nQueries, messages,
                   calls, results>>
    /\ UNCHANGED <<line, query, cleanups>>

\* Lines 109-124: the first model call; the reply asks for a tool, the
\* arguments parse, and call_tool is issued.
ModelCallsTool ==
    /\ mpc = "loop"
    /\ qpc = "model1"
    /\ \E r \in ModelReplies :
          /\ WantsTool(r)
          /\ json_loads(PickCall(r).arguments).ok
          /\ replies' = Append(replies, r)
          /\ calls' = Append(calls, [name |-> PickCall(r).name,
                                     arguments |-> json_loads(PickCall(r).arguments).value])
    /\ sent' = Append(sent, messages)
    /\ trace' = trace \o <<"model", "call_tool">>
    /\ qpc' = "tool_wait"
    /\ UNCHANGED <<mainVars, sessionState, closedSeen, nQueries, messages,
                   results, outcome>>
    /\ UNCHANGED <<loopVars, cleanups>>

\* Lines 109-121: the first model call; the reply asks for a tool and
\* json.loads raises on its arguments.
ModelBadArguments ==
    /\ mpc = "loop"
    /\ qpc = "model1"
    /\ \E r \in ModelReplies :
          /\ WantsTool(r)
          /\ ~json_loads(PickCall(r).arguments).ok
          /\ replies' = Append(replies, r)
    /\ Raise("JSONDecodeError")
    /\ sent' = Append(sent, messages)
    /\ trace' = Append(trace, "model")
    /\ UNCHANGED <<mainVars, sessionState, closedSeen, nQueries, messages,
                   calls, results>>
    /\ UNCHANGED <<line, query, cleanups>>

\* A model call raises (lines 109, 136): the API's own error.
ModelRaises ==
    /\ mpc = "loop"
    /\ qpc \in {"model1", "model2"}
    /\ Raise("APIError")
    /\ sent' = Append(sent, messages)
    /\ trace' = Append(trace, "model")
    /\ UNCHANGED <<mainVars, sessionState, closedSeen, nQueries, messages,
                   calls, results, replies>>
    /\ UNCHANGED <<line, query, cleanups>>

\* Mutant of WithToolResult: the two appends in the other order.
WithToolResultFirst(msgs, r, res) ==
    Append(Append(msgs, ToolTurn(res, PickCall(r))), AssistantTurn(r))

\* Lines 128-133: the history after a tool result.
WithToolResult(msgs, r, res) ==
    Append(Append(msgs, AssistantTurn(r)), ToolTurn(res, PickCall(r)))

\* call_tool returns (line 124); lines 125-133 append the model's turn and
\* the tool-result turn.
CallToolReturn ==
    /\ mpc = "loop"
    /\ qpc = "tool_wait"
    /\ sessionState = "Ready"
    /\ \E res \in ToolResults :
          /\ Len(res.content) > 0
          /\ results' = Append(results, res)
          /\ messages' = WithToolResult(messages, replies[1], res)
    /\ trace' = Append(trace, "tool_done")
    /\ qpc' = "model2"
    /\ UNCHANGED <<mainVars, sessionState, closedSeen, nQueries, calls,
                   replies, sent, outcome>>
    /\ UNCHANGED <<loopVars, cleanups>>

\* call_tool returns a result with no content block: line 128 has appended
\* the model's turn when result.content[0] (line 131) raises IndexError.
CallToolReturnsEmpty ==
    /\ mpc = "loop"
    /\ qpc = "tool_wait"
    /\ sessionState = "Ready"
    /\ \E res \in ToolResults :
          /\ Len(res.content) = 0
          /\ results' = Append(results, res)
    /\ messages' = Append(messages, AssistantTurn(replies[1]))
    /\ trace' = Append(trace, "tool_done")
    /\ Raise("IndexError")
    /\ UNCHANGED <<mainVars, sessionState, closedSeen, nQueries, calls,
                   replies, sent>>
    /\ UNCHANGED <<line, query, cleanups>>

\* What process_query does with an exception of call_tool (line 124 stands
\* in no try block): it leaves process_query.
OnToolError(e) == Raise(e)

\* call_tool raises (line 124).
CallToolRaise ==
    /\ mpc = "loop"
    /\ qpc = "tool_wait"
    /\ \E e \in SessionErrors(sessionState, "ToolExecutionError") :
          /\ OnToolError(e)
          /\ closedSeen' = (closedSeen \/ e = "SessionClosedError")
          /\ trace' = Append(trace, e)
    /\ UNCHANGED <<mainVars, sessionState, nQueries, messages, calls, results,
                   replies, sent>>
    /\ UNCHANGED <<line, query, cleanups>>

\* Mutant of ModelSummarises: a tool loop, the second reply's request is
\* executed as the first one's was.
ModelSummarisesLoops ==
    /\ mpc = "loop"
    /\ qpc = "model2"
    /\ \E r \in ModelReplies :
          /\ replies' = Append(replies, r)
          /\ IF WantsTool(r) /\ json_loads(PickCall(r).arguments).ok
             THEN /\ calls' = Append(calls, [name |-> PickCall(r).name,
                                             arguments |-> json_loads(PickCall(r).arguments).value])
                  /\ trace' = trace \o <<"model", "call_tool">>
                  /\ qpc' = "tool_wait"
                  /\ UNCHANGED <<outcome, printed>>
             ELSE /\ Return(r.content)
                  /\ trace' = Append(trace, "model")
                  /\ UNCHANGED calls
    /\ sent' = Append(sent, messages)
    /\ UNCHANGED <<mainVars, sessionState, closedSeen, nQueries, messages,
                   results>>
    /\ UNCHANGED <<line, query, cleanups>>

\* Lines 136-140: the second model call; its text is returned whatever
\* else the reply carries.
ModelSummarises ==
    /\ mpc = "loop"
    /\ qpc = "model2"
    /\ \E r \in ModelReplies :
          /\ replies' = Append(replies, r)
          /\ Return(r.content)
    /\ sent' = Append(sent, messages)
    /\ trace' = Append(trace, "model")
    /\ UNCHANGED <<mainVars, sessionState, closedSeen, nQueries, messages,
                   calls, results>>
    /\ UNCHANGED <<line, query, cleanups>>

\* ------------------------------------------------------ the specification
\* The program's own steps.
ProgramNext ==
    \/ Construct
    \/ GetConfig
    \/ StartTransport
    \/ EnterSession
    \/ Initialize
    \/ StartupListTools
    \/ Cleanup
    \/ ModelAnswers
    \/ ModelCallsTool
    \/ ModelBadArguments
    \/ ModelRaises
    \/ ModelSummarises

\* The steps of the user and of the remote side.
EnvNext ==
    \/ \E raw \in RawLines : ReadQuery(raw)
    \/ ReadQuit
    \/ ReadFails
    \/ Interrupt
    \/ SessionDrop
    \/ ListToolsReturn
    \/ ListToolsRaise
    \/ CallToolReturn
    \/ CallToolReturnsEmpty
    \/ CallToolRaise

Next == ProgramNext \/ EnvNext

Spec == Init /\ [][Next]_vars


\* A request waiting on a session that has closed is failed.
ClosedFails ==
    /\ sessionState = "Closed"
    /\ (ListToolsRaise \/ CallToolRaise)

\* Fairness: the program's own steps are taken when they can be (the event
\* loop runs a ready task, a model call returns or raises), and a closed
\* session fails its waiters.  Nothing obliges the remote side to answer or
\* the user to type; lines 81, 98 and 124 pass no timeout.
LiveSpec == Spec /\ WF_vars(ProgramNext) /\ WF_vars(ClosedFails)

\* The program, and a caller that calls cleanup again afterwards.
TwiceSpec == Init /\ [][Next \/ CleanupAgain]_vars

\* ------------------------------------------------------------- vocabulary
IsPrefix(s, t) == Len(s) <= Len(t) /\ SubSeq(t, 1, Len(s)) = s

Range(s) == {s[i] : i \in 1..Len(s)}

Count(s, x) == Cardinality({i \in 1..Len(s) : s[i] = x})

QueryOver == mpc = "loop" /\ qpc = "input" /\ nQueries > 0

\* ----------------------------------------------------------------- claims

\* C1: one call of process_query issues at most one call_tool and makes at
\* most two model calls; a call_tool is issued only after the first model
\* call, the second model call is made only after call_tool has completed,
\* and the reply of the second model call is returned with no further tool
\* call, whatever it carries.
C1_AtMostOneToolRound ==
    /\ Count(trace, "call_tool") <= 1
    /\ Len(calls) = Count(trace, "call_tool")
    /\ Count(trace, "model") <= 2
    /\ \A i \in 1..Len(trace) :
          /\ trace[i] = "call_tool" => (i > 1 /\ trace[i - 1] = "model")
          /\ (trace[i] = "model" /\ "call_tool" \in Range(SubSeq(trace, 1, i - 1)))
                => trace[i - 1] = "tool_done"
          /\ (trace[i] = "model" /\ Count(SubSeq(trace, 1, i - 1), "model") = 1)
                => (i = 5 /\ i = Len(trace))
    /\ (Len(replies) = 2 /\ outcome.kind = "returned")
          => (outcome.value = replies[2].content /\ qpc = "input")

C1_Witness ==
    /\ QueryOver
    /\ Len(replies) = 2
    /\ WantsTool(replies[2])
    /\ outcome.kind = "returned"
    /\ trace = <<"list_tools", "model", "call_tool", "tool_done", "model">>

\* C2: when the first model reply carries no tool-invocation request,
\* process_query returns that reply's text unchanged, having made exactly
\* one model call and no call_tool.
C2_PlainAnswerReturned ==
    (Len(replies) >= 1 /\ replies[1].tool_calls = <<>>)
        => /\ outcome = [kind |-> "returned", value |-> replies[1].content]
           /\ Len(replies) = 1
           /\ Count(trace, "model") = 1
           /\ calls = <<>>
           /\ "call_tool" \notin Range(trace)

C2_Witness ==
    /\ QueryOver
    /\ Len(replies) = 1
    /\ replies[1].tool_calls = <<>>
    /\ outcome = [kind |-> "returned", value |-> "hi there"]
    /\ messages = <<UserTurn("hello")>>


\* C3: when the first model reply asks for a tool and process_query returns,
\* call_tool was issued exactly once with the requested name and arguments,
\* the tool-result turn given to the second model call holds the whole
\* payload call_tool returned (the text of every content block), and the
\* value returned is the second reply's text.
C3_ToolResultForwarded ==
    (Len(replies) >= 1 /\ WantsTool(replies[1]) /\ outcome.kind = "returned")
        => /\ Len(calls) = 1
           /\ calls[1].name = replies[1].tool_calls[1].name
           /\ calls[1].arguments = json_loads(replies[1].tool_calls[1].arguments).value
           /\ Len(results) = 1
           /\ Len(sent) = 2
           /\ \E i \in 1..Len(sent[2]) :
                 /\ sent[2][i].role = "tool"
                 /\ Range(results[1].content) \subseteq {sent[2][i].content}
           /\ Len(replies) = 2
           /\ outcome.value = replies[2].content

\* C4: within one query the history only grows; every tool-result turn
\* comes right after the model turn carrying the request that was executed
\* and bears that request's id; the history given to the second model call
\* is exactly the user turn, the model's tool-invocation turn and the
\* tool-result turn that refers to it.
TurnsWellFormed ==
    \A i \in 1..Len(messages) :
        messages[i].role = "tool"
            => /\ i > 1
               /\ messages[i - 1].role = "assistant"
               /\ Len(calls) = 1
               /\ \E j \in 1..Len(messages[i - 1].tool_calls) :
                     LET tc == messages[i - 1].tool_calls[j] IN
                     /\ tc.id = messages[i].tool_call_id
                     /\ tc.name = calls[1].name
                     /\ json_loads(tc.arguments).value = calls[1].arguments

SecondHistory ==
    Len(sent) = 2
        => /\ Len(sent[2]) = 3
           /\ sent[2][1] = sent[1][1]
           /\ sent[1] = <<sent[2][1]>>
           /\ sent[2][1].role = "user"
           /\ sent[2][2] = AssistantTurn(replies[1])
           /\ sent[2][3].role = "tool"
           /\ sent[2][3].tool_call_id \in
                 {replies[1].tool_calls[j].id : j \in 1..Len(replies[1].tool_calls)}
           /\ sent[2] = messages

AppendOnlyStep ==
    (mpc' = "loop" /\ nQueries' = nQueries) => IsPrefix(messages, messages')

C4_HistoryWellFormed ==
    /\ []TurnsWellFormed
    /\ []SecondHistory
    /\ [][AppendOnlyStep]_vars

C4_Witness ==
    /\ qpc = "model2"
    /\ Len(messages) = 3
    /\ Len(replies[1].tool_calls) = 2
    /\ messages[3].tool_call_id = "call_1"
    /\ messages[3].content = "users"

\* C5: a failure of call_tool other than SessionClosedError does not end
\* the query with an error: it becomes a tool-result turn, the second model
\* call is made with it and its reply is returned; only SessionClosedError
\* reaches the caller of process_query.
C5_ToolFailureRecovered ==
    /\ "ToolExecutionError" \in Range(trace)
          => /\ outcome.kind # "raised"
             /\ \E i \in 1..Len(messages) : messages[i].role = "tool"
             /\ (qpc = "model2" \/ Count(trace, "model") = 2)
    /\ (outcome.kind = "raised" /\ Len(trace) = 4
            /\ trace[4] \in {"ToolExecutionError", "SessionClosedError"})
          => outcome.value = "SessionClosedError"


\* C6: when main has ended, whatever the way, every context that was
\* entered has been exited exactly once, the session before the transport;
\* a transport that was started has been stopped, also when the session was
\* never created or the handshake failed.  Nothing is exited twice or
\* without having been entered at any time.
C6_OrderedRelease ==
    /\ \A x \in Range(released) : Count(released, x) = 1 /\ x \in Range(acquired)
    /\ mpc = "done"
          => /\ exit_stack = <<>>
             /\ Range(released) = Range(acquired)
             /\ "transport" \in Range(acquired) => "transport" \in Range(released)
             /\ \A i, j \in 1..Len(released) :
                   (released[i] = "session" /\ released[j] = "transport") => i < j

C6_Witness ==
    /\ mpc = "done"
    /\ pending = "HandshakeError"
    /\ acquired = <<"transport", "session">>
    /\ released = <<"session", "transport">>

\* C7: when main ends after a primary error (of startup or of the query
\* loop), the error its caller gets is that primary error, also when
\* teardown has failed too.
C7_PrimaryErrorKept ==
    (mpc = "done" /\ pending # None) => mainResult = pending

\* C8: startup runs transport start, session, handshake, catalog fetch in
\* this order; chat_loop is entered and a query read only after all of them
\* succeeded; a step that fails ends startup, no query is ever read, and
\* teardown still runs.
StartupOrder == <<"transport", "session", "initialize", "list_tools">>

C8_StartupOrdered ==
    /\ IsPrefix(startLog, StartupOrder)
    /\ (mpc = "loop" \/ nQueries > 0 \/ qpc # "idle") => startLog = StartupOrder
    /\ pending \notin {None, "KeyboardInterrupt"}
          => /\ mpc \in {"cleanup", "done"}
             /\ startLog # StartupOrder
             /\ nQueries = 0
    /\ (mpc = "done" /\ startLog # StartupOrder)
          => (exit_stack = <<>> /\ Len(released) = Len(acquired))

C8_Witness ==
    /\ mpc = "done"
    /\ pending = "ProtocolError"
    /\ startLog = <<"transport", "session", "initialize">>
    /\ released = <<"session", "transport">>
    /\ nQueries = 0

\* C9: once a session request of a query has failed with SessionClosedError,
\* no list_tools or call_tool is issued any more.
C9_StopsAfterClosed ==
    closedSeen => qpc \notin {"list_wait", "tool_wait"}

\* C10: a list_tools or call_tool that process_query waits for ends, also
\* when the remote side never answers.
Waiting == qpc \in {"list_wait", "tool_wait"}

C10_BoundedWait == Waiting ~> ~Waiting


\* C11 as stated: a call of cleanup that is not the first, or that comes
\* after the child process has exited, exits no context and does not raise.
C11_TeardownIdempotent ==
    \A i \in 1..Len(cleanups) :
        (i >= 2 \/ cleanups[i].childGone)
            => (cleanups[i].exited = 0 /\ cleanups[i].raised = None)

\* C11 amended: a call of cleanup that is not the first exits no context
\* and does not raise, whatever the first call raised and whether or not the
\* child process had exited; the first call exits every context entered,
\* once, also after the child process has exited.
C11_SecondCleanupNoOp ==
    /\ \A i \in 1..Len(cleanups) :
          i >= 2 => (cleanups[i].exited = 0 /\ cleanups[i].raised = None)
    /\ Len(cleanups) >= 1
          => /\ cleanups[1].exited = Len(acquired)
             /\ Len(released) = Len(acquired)
             /\ exit_stack = <<>>

C11_Witness ==
    /\ Len(cleanups) = 2
    /\ cleanups[1].childGone
    /\ cleanups[1].exited = 2
    /\ cleanups[1].raised = "TeardownError"
    /\ released = <<"session", "transport">>


\* C14: when the first model reply carries several requests, only the first
\* is executed: call_tool gets the first request's name and arguments, the
\* tool-result turn bears the first request's id, and no other request of the
\* reply is executed.
C14_FirstRequestWins ==
    (Len(replies) >= 1 /\ Len(replies[1].tool_calls) >= 2)
        => LET first == replies[1].tool_calls[1] IN
           /\ Len(calls) <= 1
           /\ Count(trace, "call_tool") = Len(calls)
           /\ json_loads(first.arguments).ok => Len(calls) = 1
           /\ calls # <<>>
                 => calls[1] = [name |-> first.name,
                                arguments |-> json_loads(first.arguments).value]
           /\ \A i \in 1..Len(messages) :
                 messages[i].role = "tool" => messages[i].tool_call_id = first.id

C14_Witness ==
    /\ QueryOver
    /\ outcome.kind = "returned"
    /\ Len(replies[1].tool_calls) = 2
    /\ replies[1].tool_calls[1].name = "list_tables"
    /\ replies[1].tool_calls[1].arguments = "{\"db\":\"shop\"}"
    /\ replies[1].tool_calls[2].name = "run_query"
    /\ calls = <<[name |-> "list_tables", arguments |-> {<<"db", "shop">>}]>>
    /\ Len(messages) = 3

\* C15: every query starts from its own user turn: the history given to the
\* first model call is exactly that turn, and the history of a query holds
\* nothing but that turn, the model's turn of this query and its tool-result
\* turn.
C15_QueriesIndependent ==
    /\ Len(sent) >= 1 => sent[1] = <<UserTurn(query)>>
    /\ (mpc = "loop" /\ nQueries > 0)
          => /\ query = Strip(line)
             /\ Len(messages) \in 1..3
             /\ messages[1] = UserTurn(query)
             /\ Len(messages) >= 2
                   => /\ Len(replies) >= 1
                      /\ messages[2] = AssistantTurn(replies[1])
             /\ Len(messages) = 3
                   => /\ messages[3].role = "tool"
                      /\ Len(results) = 1
                      /\ Len(results[1].content) >= 1
                      /\ messages[3].content = results[1].content[1]

C15_Witness ==
    /\ nQueries = 2
    /\ printed = "error"
    /\ qpc = "model2"
    /\ query = "hello"
    /\ sent = <<<<UserTurn("hello")>>>>
    /\ Len(messages) = 3

\* C16: chat_loop is left only when the line read is 'quit' after trimming
\* and lowering, or by an interrupt that is no Exception; a line that is
\* 'quit' in that sense is never processed as a query; an Exception raised
\* while reading or processing a query is reported and the loop goes on with
\* the session as it was entered; cleanup does not run while the loop runs,
\* and has run exactly once when main has ended after startup.
QuitLines == {l \in RawLines : Lower(Strip(l)) = "quit"}

LeaveStep ==
    (mpc = "loop" /\ mpc' # "loop")
        => /\ mpc' = "cleanup"
           /\ cleanups' = <<>>
           /\ \/ pending' = None /\ line' \in QuitLines /\ qpc = "input"
              \/ pending' = "KeyboardInterrupt"

LoopInvariant ==
    /\ mpc = "loop"
          => /\ cleanups = <<>>
             /\ released = <<>>
             /\ exit_stack = <<"transport", "session">>
             /\ pending = None
    /\ (mpc = "loop" /\ qpc # "input") => line \notin QuitLines
    /\ outcome.kind = "raised" => (mpc = "loop" /\ qpc = "input" /\ printed = "error")
    /\ Len(cleanups) <= 1
    /\ (mpc = "done" /\ startLog = StartupOrder) => Len(cleanups) = 1

C16_LoopExits ==
    /\ []LoopInvariant
    /\ [][LeaveStep]_vars

C16_Witness ==
    /\ mpc = "done"
    /\ pending = None
    /\ line = " QUIT "
    /\ closedSeen
    /\ printed = "error"
    /\ nQueries = 2
    /\ Len(cleanups) = 1

====
